---- MODULE Spec2Model ----
(***************************************************************************)
(* Model of imdb-blurb.py: a single-pass pipeline that parses a pipe       *)
(* table of movies, resolves each row to an IMDb URL, scrapes a            *)
(* description and writes the augmented table.                             *)
(*                                                                         *)
(* Text is a sequence of atoms.  An atom is one character, or a quoted     *)
(* literal run of characters that the program only ever handles as a       *)
(* unit (for instance "Directed by", or the header row of the output).     *)
(***************************************************************************)
EXTENDS Integers, Sequences, FiniteSets, TLC

VARIABLES
    pc,              \* position in main: start, loop, check, sleep, done, crashed
    exc,             \* the uncaught exception that ended the run, "" if none
    inputReadable,   \* environment: open(txt_file) succeeds
    outputWritable,  \* environment: open(output_file, 'w') succeeds
    lines,           \* the lines of the input file
    movies,          \* parsed (title, year) entries
    idx,             \* 1-based position of the loop in movies
    url,             \* url of the current entry (None when not resolved)
    desc,            \* description of the current entry
    resp,            \* the response to the request of the entry in progress
    results,         \* collected output rows
    file,            \* content of the output file
    trace            \* history: remote requests and delays, in order

vars == <<pc, exc, inputReadable, outputWritable, lines, movies, idx, url,
          desc, resp, results, file, trace>>

\* ---------------------------------------------------------------- bounds
MaxLines == 2
MaxLineLen == 9
MaxResults == 2
MaxContentLen == 5

\* ------------------------------------------------------- program constants
YearDigits == 4

\* ------------------------------------------------------------ text helpers
Whitespace == {" "}
Digits == {"1", "2"}
Pipe == "|"

\* all texts over the atoms A of length at most n
StrUpTo(A, n) == UNION {[1..k -> A] : k \in 0..n}

RECURSIVE lstrip(_)
lstrip(s) ==
    IF s # <<>> /\ Head(s) \in Whitespace THEN lstrip(Tail(s)) ELSE s

RECURSIVE rstrip(_)
rstrip(s) ==
    IF s # <<>> /\ s[Len(s)] \in Whitespace
    THEN rstrip(SubSeq(s, 1, Len(s) - 1)) ELSE s

strip(s) == lstrip(rstrip(s))

\* Python's `sub in s`
IsIn(sub, s) ==
    \E i \in 1..(Len(s) - Len(sub) + 1) : SubSeq(s, i, i + Len(sub) - 1) = sub

\* s.split(sep)[0]: the part of s before the first occurrence of sep
SplitFirst(s, sep) ==
    IF IsIn(sep, s)
    THEN LET i == CHOOSE i \in 1..(Len(s) - Len(sep) + 1) :
                     /\ SubSeq(s, i, i + Len(sep) - 1) = sep
                     /\ \A j \in 1..(i - 1) : SubSeq(s, j, j + Len(sep) - 1) # sep
         IN SubSeq(s, 1, i - 1)
    ELSE s

\* number of whitespace atoms of s starting at position i
RECURSIVE WsRun(_, _)
WsRun(s, i) ==
    IF i <= Len(s) /\ s[i] \in Whitespace THEN 1 + WsRun(s, i + 1) ELSE 0

\* ------------------------------------------------------------ ROW_PATTERN
\* ^\|\s*([^|]+?)\s*\|\s*(\d{4})\s*\|   applied with re.match.
\* The part after the title's closing pipe at position p:  \s*(\d{4})\s*\|
\* Whitespace, digits and the pipe are disjoint, so the greedy \s* has one
\* viable length.  The result is the start of group 2, or 0 when no match.
YearStart_NoClosingPipe(s, p) ==
    LET y == p + 1 + WsRun(s, p + 1)
    IN IF /\ y + YearDigits - 1 <= Len(s)
          /\ \A k \in y..(y + YearDigits - 1) : s[k] \in Digits
       THEN y ELSE 0

YearStart(s, p) ==
    LET y == p + 1 + WsRun(s, p + 1)
        e == y + YearDigits + WsRun(s, y + YearDigits)
    IN IF /\ y + YearDigits - 1 <= Len(s)
          /\ \A k \in y..(y + YearDigits - 1) : s[k] \in Digits
          /\ e <= Len(s)
          /\ s[e] = Pipe
       THEN y ELSE 0

\* The candidate (a, t): a atoms for the first \s*, t atoms for ([^|]+?),
\* the rest up to the next pipe for the second \s*.
TitleSplitOK(s, a, t) ==
    LET b == 2 + a
        e == b + t
        c == WsRun(s, e)
    IN /\ s # <<>> /\ s[1] = Pipe
       /\ a <= WsRun(s, 2)
       /\ t >= 1
       /\ e - 1 <= Len(s)
       /\ \A k \in b..(e - 1) : s[k] # Pipe
       /\ e + c <= Len(s)
       /\ s[e + c] = Pipe
       /\ YearStart(s, e + c) # 0

ROW_PATTERN_matches(s) ==
    \E a \in 0..WsRun(s, 2), t \in 1..Len(s) : TitleSplitOK(s, a, t)

\* groups of the first match in the engine's priority order: the first \s*
\* is greedy (longest a first), the title is lazy (shortest t first)
ROW_PATTERN_groups(s) ==
    LET a == CHOOSE a \in 0..WsRun(s, 2) :
                 /\ \E t \in 1..Len(s) : TitleSplitOK(s, a, t)
                 /\ \A a2 \in (a + 1)..WsRun(s, 2) :
                        ~ \E t \in 1..Len(s) : TitleSplitOK(s, a2, t)
        t == CHOOSE t \in 1..Len(s) :
                 /\ TitleSplitOK(s, a, t)
                 /\ \A t2 \in 1..(t - 1) : ~ TitleSplitOK(s, a, t2)
        p == 2 + a + t + WsRun(s, 2 + a + t)
        y == YearStart(s, p)
    IN <<SubSeq(s, 2 + a, 1 + a + t), SubSeq(s, y, y + YearDigits - 1)>>

\* main, lines 121-128: strip each line, keep (title, year) of matching rows
RECURSIVE ParseMovies(_)
ParseMovies(ls) ==
    IF ls = <<>> THEN <<>>
    ELSE LET line == rstrip(Head(ls))
         IN IF ROW_PATTERN_matches(line)
            THEN LET g == ROW_PATTERN_groups(line)
                 IN <<[title |-> strip(g[1]), year |-> g[2]]>>
                        \o ParseMovies(Tail(ls))
            ELSE ParseMovies(Tail(ls))

\* --------------------------------------------------------- fetch_imdb_url
None == <<>>
BASE == <<"https://www.imdb.com">>

\* what a call gives back: a value, or an exception that leaves the function
Return(v) == [exc |-> "", val |-> v]
Raise(e) == [exc |-> e, val |-> None]

\* A search response.  err: requests.get raised (no response at all).
\* cells: the td.result_text cells of the body, in document order; a cell is
\* its displayed text, whether it has an <a>, whether that <a> has an href
\* attribute, and the href.
NoCells == <<>>

\* link['href'].split('?')[0] prefixed with the site
UrlOf(cell) == BASE \o SplitFirst(cell.href, <<"?">>)

\* lines 62-70: the loop over the cells; KeyError when the <a> of a cell
\* that shows the year has no href attribute
RECURSIVE YearLoop(_, _)
YearLoop(cells, year) ==
    IF cells = <<>> THEN Return(None)
    ELSE LET cell == Head(cells)
         IN IF IsIn(year, cell.text) /\ cell.hasLink
            THEN IF ~ cell.hasHref THEN Raise("KeyError")
                 ELSE IF cell.href # <<>> THEN Return(UrlOf(cell))
                 ELSE YearLoop(Tail(cells), year)
            ELSE YearLoop(Tail(cells), year)

\* lines 73-82: the first cell, when it has a link with a non-empty href
Fallback(cells) ==
    IF cells # <<>> /\ cells[1].hasLink /\ cells[1].hasHref
          /\ cells[1].href # <<>>
    THEN Return(UrlOf(cells[1]))
    ELSE Return(None)

fetch_imdb_url(title, year, r) ==
    IF r.err THEN Raise("ConnectionError")
    ELSE IF r.status # 200 THEN Return(None)
    ELSE LET m == YearLoop(r.cells, year)
         IN IF m.exc # "" \/ m.val # None THEN m ELSE Fallback(r.cells)

\* ------------------------------------------------ scrape_imdb_description
MARKER == <<".", " ", "Directed by">>
SENTINEL == <<"Description not found.">>

\* A fetched document: the span[data-testid=plot-xl] and its text, the
\* meta[name=description] and its content ("" also when it has no content
\* attribute: both are falsy at line 103).
NoPage == [hasPlot |-> FALSE, plot |-> <<>>, hasMeta |-> FALSE, content |-> <<>>]

scrape_imdb_description_MetaFirst(r) ==
    IF r.err THEN Raise("ConnectionError")
    ELSE LET doc == r.page
         IN IF doc.hasMeta /\ doc.content # <<>>
            THEN Return(strip(SplitFirst(doc.content, MARKER)) \o <<".">>)
            ELSE IF doc.hasPlot THEN Return(strip(doc.plot))
            ELSE Return(SENTINEL)

scrape_imdb_description(r) ==
    IF r.err THEN Raise("ConnectionError")
    ELSE LET doc == r.page
         IN IF doc.hasPlot THEN Return(strip(doc.plot))
            ELSE IF doc.hasMeta /\ doc.content # <<>>
            THEN Return(strip(SplitFirst(doc.content, MARKER)) \o <<".">>)
            ELSE Return(SENTINEL)

\* ------------------------------------------------------------ output table
HEADER == <<"| Title | Year | Description |">>
SEPARATOR == <<"|---|---|---|">>
NL == <<"\n">>

FormatRow_YearFirst(title, year, d) ==
    <<"|", " ">> \o year \o <<" ", "|", " ">> \o title
        \o <<" ", "|", " ">> \o d \o <<" ", "|">>

\* line 141: f"| {title} | {year} | {desc} |"
FormatRow(title, year, d) ==
    <<"|", " ">> \o title \o <<" ", "|", " ">> \o year
        \o <<" ", "|", " ">> \o d \o <<" ", "|">>

\* "\n".join(rows)
RECURSIVE Join(_)
Join(rows) ==
    IF rows = <<>> THEN <<>>
    ELSE IF Len(rows) = 1 THEN rows[1]
    ELSE rows[1] \o NL \o Join(Tail(rows))

OutputText_TrailingNewline(rows) ==
    HEADER \o NL \o SEPARATOR \o NL \o Join(rows) \o NL

\* lines 146-148: the three writes
OutputText(rows) == HEADER \o NL \o SEPARATOR \o NL \o Join(rows)

\* ------------------------------------------------------- inputs of a run
\* the atoms of the lines that are tried exhaustively
LineAtoms == {"|", " ", "a", "1"}

\* a small table: two rows (one padded, with a trailing column) and a row
\* whose title field is blank
InputLines ==
    { <<"|", "a", "|", "1", "1", "1", "1", "|">>,
      <<"|", " ", "a", " ", "a", " ", "|", " ", "2", "2", "2", "2", " ", "|", "a">>,
      <<"|", " ", "|", "1", "1", "1", "1", "|">> }

\* a row whose year has three digits
MalformedLines ==
    { <<"|", "a", "|", "1", "1", "1", "|">> }

Cell(t, l, h, r) == [text |-> t, hasLink |-> l, hasHref |-> h, href |-> r]
Cells ==
    { Cell(<<"a", " ", "1", "1", "1", "1">>, TRUE, TRUE, <<"/t1", "?", "r">>),
      Cell(<<"a", " ", "2", "2", "2", "2">>, TRUE, TRUE, <<"/t2">>),
      Cell(<<"a", " ", "1", "1", "1", "1">>, FALSE, FALSE, <<>>),
      Cell(<<"a", " ", "1", "1", "1", "1">>, TRUE, FALSE, <<>>) }

Response(e, s, c, p) == [err |-> e, status |-> s, cells |-> c, page |-> p]
NoResponse == Response(FALSE, 0, NoCells, NoPage)
NetworkError == Response(TRUE, 0, NoCells, NoPage)

SearchResponses ==
    {NetworkError, Response(FALSE, 404, NoCells, NoPage)}
        \cup {Response(FALSE, 200, c, NoPage) : c \in StrUpTo(Cells, MaxResults)}

Page(hp, p, hm, c) == [hasPlot |-> hp, plot |-> p, hasMeta |-> hm, content |-> c]
Pages ==
    { NoPage,
      Page(TRUE, <<" ", "a">>, TRUE, <<"a", ".">>),
      Page(FALSE, <<>>, TRUE, <<"a", ".", " ", "Directed by", " ", "a">>),
      Page(FALSE, <<>>, TRUE, <<"a">>) }

DetailResponses ==
    {NetworkError, Response(FALSE, 404, NoCells, NoPage)}
        \cup {Response(FALSE, 200, NoCells, p) : p \in Pages}

\* every document with a meta content of at most MaxContentLen atoms
DescAtoms == {"a", " ", ".", "Directed by"}
AllPages ==
    {Page(FALSE, <<>>, FALSE, <<>>)}
        \cup {Page(FALSE, <<>>, TRUE, c) : c \in StrUpTo(DescAtoms, MaxContentLen)}
        \cup {Page(TRUE, p, FALSE, <<>>) : p \in StrUpTo({"a", " "}, 2)}
        \cup {Page(TRUE, p, TRUE, c) :
                 p \in StrUpTo({"a", " "}, 2),
                 c \in {<<>>, <<"a">>, <<"a", ".", " ", "Directed by">>}}

OldFile == <<"previous content">>

\* ------------------------------------------------------------------ main
\* an entry of the history: what was done, for which entry, with which url
Request(op, u) == [op |-> op, i |-> idx, url |-> u]

Crash(e) == pc' = "crashed" /\ exc' = e

ReadInput_Swallow ==
    /\ pc = "start"
    /\ movies' = IF inputReadable THEN ParseMovies(lines) ELSE <<>>
    /\ pc' = "loop"
    /\ UNCHANGED <<exc, inputReadable, outputWritable, lines, idx, url, desc,
                   resp, results, file, trace>>

\* lines 120-129: read the input file and parse it
ReadInput ==
    /\ pc = "start"
    /\ IF inputReadable
       THEN /\ movies' = ParseMovies(lines)
            /\ pc' = "loop"
            /\ exc' = exc
       ELSE /\ Crash("OSError")
            /\ movies' = movies
    /\ UNCHANGED <<inputReadable, outputWritable, lines, idx, url, desc,
                   resp, results, file, trace>>

\* line 135: url = fetch_imdb_url(title, year), the site answering r
Search(r) ==
    /\ pc = "loop"
    /\ idx <= Len(movies)
    /\ LET ret == fetch_imdb_url(movies[idx].title, movies[idx].year, r)
       IN /\ trace' = Append(trace, Request("search", ret.val))
          /\ resp' = r
          /\ IF ret.exc # ""
             THEN Crash(ret.exc) /\ url' = url
             ELSE pc' = "check" /\ exc' = exc /\ url' = ret.val
    /\ UNCHANGED <<inputReadable, outputWritable, lines, movies, idx, desc,
                   results, file>>

Skip_Retry ==
    /\ pc = "check"
    /\ url = None
    /\ pc' = "loop"
    /\ UNCHANGED <<exc, inputReadable, outputWritable, lines, movies, idx,
                   url, desc, resp, results, file, trace>>

\* lines 136-138: no url, go to the next entry
Skip ==
    /\ pc = "check"
    /\ url = None
    /\ idx' = idx + 1
    /\ pc' = "loop"
    /\ resp' = NoResponse
    /\ UNCHANGED <<exc, inputReadable, outputWritable, lines, movies, url,
                   desc, results, file, trace>>

\* lines 140-141: scrape the page, the site answering r, and collect the row
Scrape(r) ==
    /\ pc = "check"
    /\ url # None
    /\ LET ret == scrape_imdb_description(r)
       IN /\ trace' = Append(trace, Request("fetch", url))
          /\ resp' = r
          /\ IF ret.exc # ""
             THEN Crash(ret.exc) /\ UNCHANGED <<desc, results>>
             ELSE /\ pc' = "sleep"
                  /\ exc' = exc
                  /\ desc' = ret.val
                  /\ results' = Append(results,
                        FormatRow(movies[idx].title, movies[idx].year, ret.val))
    /\ UNCHANGED <<inputReadable, outputWritable, lines, movies, idx, url, file>>

\* line 142: time.sleep(1), then the next entry
Sleep ==
    /\ pc = "sleep"
    /\ trace' = Append(trace, Request("sleep", None))
    /\ idx' = idx + 1
    /\ pc' = "loop"
    /\ resp' = NoResponse
    /\ UNCHANGED <<exc, inputReadable, outputWritable, lines, movies, url,
                   desc, results, file>>

\* lines 145-150: after the loop, write the table
WriteOutput ==
    /\ pc = "loop"
    /\ idx > Len(movies)
    /\ IF outputWritable
       THEN /\ file' = OutputText(results)
            /\ pc' = "done"
            /\ exc' = exc
       ELSE /\ Crash("OSError")
            /\ file' = file
    /\ UNCHANGED <<inputReadable, outputWritable, lines, movies, idx, url,
                   desc, resp, results, trace>>

Start ==
    /\ pc = "start"
    /\ exc = ""
    /\ inputReadable \in BOOLEAN
    /\ outputWritable \in BOOLEAN
    /\ movies = <<>>
    /\ idx = 1
    /\ url = None
    /\ desc = <<>>
    /\ resp = NoResponse
    /\ results = <<>>
    /\ file = OldFile
    /\ trace = <<>>

Init ==
    /\ lines \in StrUpTo(InputLines, MaxLines)
    /\ Start

Next ==
    \/ ReadInput
    \/ \E r \in SearchResponses : Search(r)
    \/ Skip
    \/ \E r \in DetailResponses : Scrape(r)
    \/ Sleep
    \/ WriteOutput

Spec == Init /\ [][Next]_vars

\* the parser on every line, alone and inside a table
InitParse ==
    /\ \/ \E n \in 0..MaxLineLen : \E l \in [1..n -> LineAtoms] : lines = <<l>>
       \/ lines \in StrUpTo(InputLines \cup MalformedLines, MaxLines)
    /\ Start
    /\ inputReadable
    /\ outputWritable

NextParse == ReadInput

SpecParse == InitParse /\ [][NextParse]_vars

\* the extractor on every document, for a run that has resolved the url of
\* its only entry
InitScrape ==
    /\ pc = "check"
    /\ exc = ""
    /\ inputReadable = TRUE
    /\ outputWritable \in BOOLEAN
    /\ lines = <<<<"|", "a", "|", "1", "1", "1", "1", "|">>>>
    /\ movies = ParseMovies(lines)
    /\ idx = 1
    /\ resp \in {Response(FALSE, 200, <<c>>, NoPage) : c \in Cells}
    /\ url = fetch_imdb_url(movies[1].title, movies[1].year, resp).val
    /\ url # None
    /\ desc = <<>>
    /\ results = <<>>
    /\ file = OldFile
    /\ trace = <<[op |-> "search", i |-> 1, url |-> url]>>

NextScrape ==
    \E r \in {Response(FALSE, 200, NoCells, p) : p \in AllPages} : Scrape(r)

SpecScrape == InitScrape /\ [][NextScrape]_vars

\* ================================================================ claims
Last(s) == s[Len(s)]

\* the last thing the run did was the search request of entry idx
AfterSearch ==
    /\ pc \in {"check", "crashed"}
    /\ trace # <<>>
    /\ Last(trace).op = "search"

\* the last thing the run did was the detail-page fetch of entry idx
AfterFetch ==
    /\ pc \in {"sleep", "crashed"}
    /\ trace # <<>>
    /\ Last(trace).op = "fetch"

\* ------------------------------------------------------------------- C6
\* positions of the pipes of a line
Pipes(l) == {k \in 1..Len(l) : l[k] = Pipe}
Min(S) == CHOOSE m \in S : \A n \in S : m <= n
SecondPipe(l) == Min(Pipes(l) \ {1})
ThirdPipe(l) == Min({k \in Pipes(l) : k > SecondPipe(l)})
TitleField(l) == SubSeq(l, 2, SecondPipe(l) - 1)
YearField(l) == SubSeq(l, SecondPipe(l) + 1, ThirdPipe(l) - 1)

\* a leading pipe, a non-empty title field, a pipe, a 4-digit year, a pipe
WellFormedRow(l) ==
    /\ l # <<>> /\ l[1] = Pipe
    /\ Cardinality(Pipes(l)) >= 3
    /\ TitleField(l) # <<>>
    /\ Len(strip(YearField(l))) = 4
    /\ \A k \in 1..4 : strip(YearField(l))[k] \in Digits

EntryOfRow(l) == [title |-> strip(TitleField(l)), year |-> strip(YearField(l))]

\* C6: once the input is parsed, the entries are, in line order and with
\* duplicates kept, the (trimmed title, year) of exactly the well-formed
\* lines; every other line yields nothing.
C6_ParserYieldsWellFormedRows ==
    pc # "start" /\ inputReadable =>
        LET rows == SelectSeq(lines, WellFormedRow)
        IN /\ Len(movies) = Len(rows)
           /\ \A k \in 1..Len(rows) : movies[k] = EntryOfRow(rows[k])

\* a table of two lines of which one is accepted with a padded title and
\* the other is rejected
C6_Witness ==
    /\ pc = "loop"
    /\ Len(lines) = 2
    /\ Len(movies) = 1
    /\ \E k \in 1..2 : WellFormedRow(lines[k])
                          /\ TitleField(lines[k]) # movies[1].title

\* ------------------------------------------------------------------- C1
\* every candidate of the list carries a link with a target
AllLinked(cells) ==
    \A k \in 1..Len(cells) :
        cells[k].hasLink /\ cells[k].hasHref /\ cells[k].href # <<>>

\* the first candidate whose text contains the year, else the first one
ChosenCandidate(cells, year) ==
    IF \E k \in 1..Len(cells) : IsIn(year, cells[k].text)
    THEN cells[Min({k \in 1..Len(cells) : IsIn(year, cells[k].text)})]
    ELSE cells[1]

\* C1: after the search of an entry, the resolver has returned the url of
\* the first candidate whose text contains the year, else of the first
\* candidate, and None when the list is empty or the request failed.
C1_ResolverReturns ==
    AfterSearch /\ (resp.err \/ AllLinked(resp.cells)) =>
        /\ pc = "check"
        /\ IF ~ resp.err /\ resp.status = 200 /\ resp.cells # <<>>
           THEN url = UrlOf(ChosenCandidate(resp.cells, movies[idx].year))
           ELSE url = None

\* ------------------------------------------------------------------- C2
SearchFailed ==
    AfterSearch /\ (resp.err \/ resp.status # 200 \/ resp.cells = <<>>)

\* C2: a failed search (network error, non-success response, empty list) is
\* not raised: the run is not ended by it, the entry has no url and no row,
\* and the loop goes on.
C2_SearchFailureNotRaised ==
    SearchFailed =>
        /\ pc = "check"
        /\ exc = ""
        /\ url = None

\* ------------------------------------------------------------------- C3
\* the part of c before the first occurrence of the credits marker
Occurrences(c) ==
    {i \in 1..(Len(c) - Len(MARKER) + 1) : SubSeq(c, i, i + Len(MARKER) - 1) = MARKER}
TruncatedAtMarker(c) ==
    IF Occurrences(c) = {} THEN c ELSE SubSeq(c, 1, Min(Occurrences(c)) - 1)

\* a document was fetched and a description extracted from it
Extracted == AfterFetch /\ pc = "sleep"

\* C3 as stated: the plot text when the plot field is present, otherwise the
\* meta description content truncated at the marker, otherwise the sentinel.
C3_PriorityAsStated ==
    Extracted =>
        LET doc == resp.page
        IN desc = IF doc.hasPlot THEN strip(doc.plot)
                  ELSE IF doc.hasMeta /\ doc.content # <<>>
                  THEN TruncatedAtMarker(doc.content)
                  ELSE SENTINEL

\* C3 amended: the plot text (stripped) when the plot field is present;
\* otherwise, when the meta description has a non-empty content, that
\* content truncated at the marker, stripped and followed by a "."; and the
\* sentinel when the plot is absent and the meta is absent or empty.
C3_PriorityWithFullStop ==
    Extracted =>
        LET doc == resp.page
        IN /\ doc.hasPlot => desc = strip(doc.plot)
           /\ ~ doc.hasPlot /\ doc.hasMeta /\ doc.content # <<>> =>
                  desc = strip(TruncatedAtMarker(doc.content)) \o <<".">>
           /\ ~ doc.hasPlot /\ (~ doc.hasMeta \/ doc.content = <<>>) =>
                  desc = SENTINEL

\* a document without plot whose meta content carries the marker after a
\* padded sentence
C3_Witness ==
    /\ Extracted
    /\ ~ resp.page.hasPlot
    /\ resp.page.content = <<"a", " ", ".", " ", "Directed by">>
    /\ desc = <<"a", ".">>

\* ------------------------------------------------------------------- C4
Count(op) == Cardinality({k \in 1..Len(trace) : trace[k].op = op})

\* C4: whatever the outcome of the detail-page fetch of a resolved entry,
\* the run is not ended by it and the entry has its one row.
C4_FetchNeverAborts ==
    AfterFetch =>
        /\ pc = "sleep"
        /\ exc = ""
        /\ Len(results) = Count("fetch")

\* ------------------------------------------------------------------- C5
\* the searches of entry i that came back with a url
Resolved(i) ==
    \E k \in 1..Len(trace) :
        trace[k].op = "search" /\ trace[k].i = i /\ trace[k].url # None

\* entry i has been through its iteration of the loop
Processed(i) == i < idx \/ (i = idx /\ pc = "sleep")

KeptEntry(i) == Processed(i) /\ Resolved(i)

\* C5: in every state the (title, year) pairs read back from the collected
\* rows are the processed entries with a resolved url, in input order, each
\* once; at the end of a run every entry has been processed.
C5_RowsAreResolvedEntries ==
    pc # "start" =>
        LET kept == SelectSeq([i \in 1..Len(movies) |-> i], KeptEntry)
            keys == ParseMovies(results)
        IN /\ Len(keys) = Len(results)
           /\ Len(keys) = Len(kept)
           /\ \A j \in 1..Len(kept) : keys[j] = movies[kept[j]]
           /\ pc = "done" => idx = Len(movies) + 1

\* a finished run that dropped its first entry and kept its second
C5_Witness ==
    /\ pc = "done"
    /\ Len(movies) = 2
    /\ Len(results) = 1
    /\ ~ Resolved(1)
    /\ Resolved(2)
    /\ movies[1] # movies[2]

\* ------------------------------------------------------------------- C7
\* C7: any two consecutive remote requests have a delay between them.
C7_DelayBetweenRequests ==
    \A k \in 1..(Len(trace) - 1) :
        trace[k].op # "sleep" => trace[k + 1].op = "sleep"

\* ------------------------------------------------------------------- C8
\* C8: with an unreadable input the run ends in failure with the error
\* reported, no request issued and the output untouched; with an unwritable
\* output the run never ends in success and the error ends it.
C8_FileErrorsAreFatal ==
    /\ ~ inputReadable /\ pc # "start" =>
           /\ pc = "crashed"
           /\ exc = "OSError"
           /\ trace = <<>>
           /\ file = OldFile
    /\ ~ outputWritable =>
           /\ pc # "done"
           /\ file = OldFile
           /\ pc = "crashed" /\ inputReadable /\ idx > Len(movies) =>
                  exc = "OSError"

\* the input held a row to look up and could not be read
C8_Witness ==
    /\ ~ inputReadable
    /\ pc = "crashed"
    /\ ParseMovies(lines) # <<>>

\* ------------------------------------------------------------------- C9
IsRequest(e) == e.op # "sleep"
IsSearch(e) == e.op = "search"

\* C9: the requests are, entry by entry in input order, one search and then
\* at most one fetch of the url that search resolved; nothing is repeated,
\* and a finished run has searched every entry.
C9_RequestTrace ==
    LET reqs == SelectSeq(trace, IsRequest)
        searches == SelectSeq(trace, IsSearch)
    IN /\ Len(searches) <= Len(movies)
       /\ \A k \in 1..Len(searches) : searches[k].i = k
       /\ \A k \in 1..Len(reqs) :
              reqs[k].op = "fetch" =>
                  /\ k > 1
                  /\ reqs[k - 1].op = "search"
                  /\ reqs[k - 1].i = reqs[k].i
                  /\ reqs[k].url # None
                  /\ reqs[k - 1].url = reqs[k].url
       /\ pc = "done" => Len(searches) = Len(movies)

\* a finished run of two entries: the first resolved and fetched, the
\* second searched without result
C9_Witness ==
    /\ pc = "done"
    /\ Len(movies) = 2
    /\ Count("search") = 2
    /\ Count("fetch") = 1
    /\ Resolved(1)

\* ------------------------------------------------------------------ C10
\* text.split("\n")
RECURSIVE SplitLines(_)
SplitLines(t) ==
    IF \E k \in 1..Len(t) : t[k] = "\n"
    THEN LET k == Min({j \in 1..Len(t) : t[j] = "\n"})
         IN <<SubSeq(t, 1, k - 1)>> \o SplitLines(SubSeq(t, k + 1, Len(t)))
    ELSE <<t>>

\* C10: the output file is untouched until the run has finished, and the
\* file of a finished run is the header row, the separator row and the
\* collected rows joined by newlines (nothing after the separator's newline
\* when there is no row).
C10_OutputWrittenOnceAtEnd ==
    /\ pc # "done" => file = OldFile
    /\ pc = "done" =>
           /\ idx > Len(movies)
           /\ SplitLines(file) =
                  <<HEADER, SEPARATOR>>
                      \o (IF results = <<>> THEN <<<<>>>> ELSE results)

\* a finished run with two rows in its file
C10_Witness ==
    /\ pc = "done"
    /\ Len(results) = 2
    /\ Len(SplitLines(file)) = 4

====
